---- MODULE Spec2Model ----
(***************************************************************************)
(* KampusMeal backend: the cart, the order engine and the review trigger   *)
(* over the Firestore collections menuItems, stalls, carts, orders and     *)
(* reviews.  A document is a function from field names to values; a        *)
(* collection is a function from the ids of the documents that exist.      *)
(* Timestamps (createdAt, updatedAt) are left out of the documents.        *)
(* calls holds the local variables of the requests that are in flight.     *)
(***************************************************************************)
EXTENDS Integers, Sequences, FiniteSets, TLC

VARIABLES menuItems, stalls, carts, orders, reviews, calls

vars == <<menuItems, stalls, carts, orders, reviews, calls>>

---------------------------------------------------------------------------
(* Bounds of the model *)

\* orders that checkout may create
MaxOrders == 1
\* largest quantity a cart item may reach in the cart specification
MaxCartQuantity == 3
\* completed orders the review specifications start from
MaxReviewOrders == 3
\* largest quantity a cart item may reach through repeated addToCart
MaxQuantity == 2
\* largest quantity a cart item may reach in the quantity specification
MaxStoredQuantity == 100

Users == {"u1", "u2"}
\* the users who shop; the others only address orders by id
Shoppers == {"u1"}
Stalls == {"s1", "s2"}
MenuIds == {"m1", "m2", "m3"}
\* the menu items the shoppers put in their carts
ShopMenuIds == {"m1", "m3"}

\* quantities that pass AddToCartSchema / UpdateCartItemSchema (1..99)
Qtys == {2}
\* quantities sent in the cart specification
CartQtys == {1, 2}
\* quantities sent in the quantity specification, valid and invalid
QuantityInputs == {0, 1, 99, 100}
\* the menu items of the quantity specification
QuantityMenuIds == {"m1", "m3"}
\* a string is the number of its characters: leading white space, the text
\* between the first and the last non-blank character, trailing white space
Str(lead, body, trail) == [lead |-> lead, body |-> body, trail |-> trail]
\* reject reasons sent by the stall owner
Reasons == {Str(0, 19, 0), Str(0, 5, 0), Str(2, 5, 3), Str(0, 501, 0)}
\* ratings sent with a review
Ratings == {4}
\* ratings sent with a review in the review specifications
ReviewRatings == {4, 5}
\* menu-item updates sent by a stall owner
UpdateDtos == {[price |-> 20000]}
\* the menu items a stall owner edits
EditedMenuIds == {"m1"}
\* the remote call of checkout that throws, "none" when all succeed
CheckoutFailures == {"none", "getCart", "uploadImage", "setOrder", "clearCart"}

---------------------------------------------------------------------------
(* OrderStatus *)

PENDING_PAYMENT == "pending_payment"
WAITING_CONFIRMATION == "waiting_confirmation"
PROCESSING == "processing"
READY == "ready"
COMPLETED == "completed"
REJECTED == "rejected"
CONFIRMED == "confirmed"

OrderStatus ==
  {PENDING_PAYMENT, WAITING_CONFIRMATION, PROCESSING, READY, COMPLETED,
   REJECTED, CONFIRMED}

\* the JavaScript null of a nullable field
Null == [null |-> TRUE]

(* HTTP statuses of the exceptions the services throw *)
OK == 200
CREATED == 201
BAD_REQUEST == 400
FORBIDDEN == 403
NOT_FOUND == 404
INTERNAL_SERVER_ERROR == 500

---------------------------------------------------------------------------
(* Firestore document operations *)

\* doc(id).set(data): create or replace the document
SetDoc(coll, id, data) ==
  [k \in DOMAIN coll \cup {id} |-> IF k = id THEN data ELSE coll[k]]

\* doc(id).update(partial): overwrite the named fields, keep the others
UpdateDoc(coll, id, partial) ==
  [coll EXCEPT ![id] = partial @@ coll[id]]

\* doc(id).delete(): no error when the document does not exist
DeleteDoc(coll, id) ==
  [k \in DOMAIN coll \ {id} |-> coll[k]]

---------------------------------------------------------------------------
(* Uploaded files *)

ALLOWED_IMAGE_TYPES == {"image/jpeg", "image/jpg", "image/png", "image/webp"}

MAX_FILE_SIZE == 5 * 1024 * 1024

\* the multipart file of a request: <<>> when no file was sent
FileInputs ==
  {<<>>,
   <<[mimetype |-> "image/jpeg", size |-> 1024]>>,
   <<[mimetype |-> "image/jpg", size |-> MAX_FILE_SIZE]>>,
   <<[mimetype |-> "image/png", size |-> MAX_FILE_SIZE + 1]>>,
   <<[mimetype |-> "application/pdf", size |-> 1024]>>}

\* validateImageFile without the check of the file size
validateImageFileNoSize(file) ==
  IF file = <<>> THEN "missing"
  ELSE IF file[1].mimetype \notin ALLOWED_IMAGE_TYPES THEN "type"
  ELSE "ok"

\* validateImageFile: "ok" or the reason of the BadRequestException
validateImageFile(file) ==
  IF file = <<>> THEN "missing"
  ELSE IF file[1].mimetype \notin ALLOWED_IMAGE_TYPES THEN "type"
  ELSE IF file[1].size > MAX_FILE_SIZE THEN "size"
  ELSE "ok"

\* uploadImage: the public URL of the file stored below
\* payment-proofs/<orderId>/ (the generated file name is not modelled)
uploadImage(file, orderId) ==
  [path |-> "payment-proofs", orderId |-> orderId]

---------------------------------------------------------------------------
(* Catalog *)

StallName(s) == IF s = "s1" THEN "Warung Satu" ELSE "Warung Dua"

InitMenuItems ==
  [m \in MenuIds |->
     IF m = "m1" THEN
       [id |-> m, stallId |-> "s1", name |-> "Nasi Goreng", price |-> 15000,
        isAvailable |-> TRUE]
     ELSE IF m = "m2" THEN
       [id |-> m, stallId |-> "s1", name |-> "Es Teh", price |-> 5000,
        isAvailable |-> TRUE]
     ELSE
       [id |-> m, stallId |-> "s2", name |-> "Mie Ayam", price |-> 12000,
        isAvailable |-> TRUE]]

InitStalls ==
  [s \in Stalls |-> [id |-> s, name |-> StallName(s), rating |-> 0, totalReviews |-> 0]]

Init ==
  /\ menuItems = InitMenuItems
  /\ stalls = InitStalls
  /\ carts = << >>
  /\ orders = << >>
  /\ reviews = << >>
  /\ calls = << >>

---------------------------------------------------------------------------
(* Cart component *)

RECURSIVE SumSubtotals(_)
\* items.reduce((sum, item) => sum + item.subtotal, 0)
SumSubtotals(items) ==
  IF items = <<>> THEN 0
  ELSE items[1].subtotal + SumSubtotals(Tail(items))

\* items.findIndex(item => item.menuItemId === id), 0 for -1
findIndex(items, id) ==
  IF \E i \in 1..Len(items) : items[i].menuItemId = id
  THEN CHOOSE i \in 1..Len(items) :
         /\ items[i].menuItemId = id
         /\ \A j \in 1..(i - 1) : items[j].menuItemId # id
  ELSE 0

\* a new CartItem built from a menu item
NewCartItem(menuItem, quantity) ==
  [menuItemId |-> menuItem.id, name |-> menuItem.name, price |-> menuItem.price,
   quantity |-> quantity, subtotal |-> menuItem.price * quantity]

\* addToCart's existing-cart branch without the new subtotal of an item whose
\* quantity grows
AddedItemsStaleSubtotal(items, menuItem, quantity) ==
  LET i == findIndex(items, menuItem.id) IN
    IF i # 0 THEN [items EXCEPT ![i] = [@ EXCEPT !.quantity = @ + quantity]]
    ELSE Append(items, NewCartItem(menuItem, quantity))

\* the items of addToCart's existing-cart branch
AddedItems(items, menuItem, quantity) ==
  LET i == findIndex(items, menuItem.id) IN
    IF i # 0 THEN
      [items EXCEPT ![i] =
         [@ EXCEPT !.quantity = @ + quantity,
                   !.subtotal = items[i].price * (items[i].quantity + quantity)]]
    ELSE Append(items, NewCartItem(menuItem, quantity))

\* addToCart without the check of the cart's stall
addToCartResultAnyStall(userId, menuItemId, quantity) ==
  IF menuItemId \notin DOMAIN menuItems THEN NOT_FOUND
  ELSE IF ~menuItems[menuItemId].isAvailable THEN BAD_REQUEST
  ELSE IF menuItems[menuItemId].stallId \notin DOMAIN stalls THEN NOT_FOUND
  ELSE OK

\* the HTTP status addToCart answers with
addToCartResult(userId, menuItemId, quantity) ==
  IF menuItemId \notin DOMAIN menuItems THEN NOT_FOUND
  ELSE IF ~menuItems[menuItemId].isAvailable THEN BAD_REQUEST
  ELSE IF menuItems[menuItemId].stallId \notin DOMAIN stalls THEN NOT_FOUND
  ELSE IF /\ userId \in DOMAIN carts
          /\ carts[userId].stallId # menuItems[menuItemId].stallId THEN BAD_REQUEST
  ELSE OK

addToCart(userId, menuItemId, quantity) ==
  /\ UNCHANGED <<menuItems, stalls, orders, reviews, calls>>
  /\ IF addToCartResult(userId, menuItemId, quantity) # OK THEN UNCHANGED carts
     ELSE LET menuItem == menuItems[menuItemId] IN
       IF userId \in DOMAIN carts THEN
         LET items == AddedItems(carts[userId].items, menuItem, quantity) IN
           carts' = UpdateDoc(carts, userId,
                         [items |-> items, totalPrice |-> SumSubtotals(items)])
       ELSE
         LET newItem == NewCartItem(menuItem, quantity) IN
           carts' = SetDoc(carts, userId,
                      [userId |-> userId, stallId |-> menuItem.stallId,
                       stallName |-> stalls[menuItem.stallId].name,
                       items |-> <<newItem>>, totalPrice |-> newItem.subtotal])

\* getCart: the cart document, Null when the user has none
getCart(userId) ==
  IF userId \in DOMAIN carts THEN carts[userId] ELSE Null

updateItemQuantityResult(userId, menuItemId, quantity) ==
  IF userId \notin DOMAIN carts THEN NOT_FOUND
  ELSE IF findIndex(carts[userId].items, menuItemId) = 0 THEN NOT_FOUND
  ELSE OK

updateItemQuantity(userId, menuItemId, quantity) ==
  /\ UNCHANGED <<menuItems, stalls, orders, reviews, calls>>
  /\ IF updateItemQuantityResult(userId, menuItemId, quantity) # OK THEN UNCHANGED carts
     ELSE LET cart == carts[userId]
              itemIndex == findIndex(cart.items, menuItemId)
              items == [cart.items EXCEPT ![itemIndex] =
                          [@ EXCEPT !.quantity = quantity,
                                    !.subtotal = cart.items[itemIndex].price * quantity]] IN
       carts' = UpdateDoc(carts, userId,
                  [items |-> items, totalPrice |-> SumSubtotals(items)])

removeItemResult(userId, menuItemId) ==
  IF userId \notin DOMAIN carts THEN NOT_FOUND ELSE OK

\* removeItem that stores the cart also when no item is left
removeItemKeepsEmptyCart(userId, menuItemId) ==
  /\ UNCHANGED <<menuItems, stalls, orders, reviews, calls>>
  /\ IF removeItemResult(userId, menuItemId) # OK THEN UNCHANGED carts
     ELSE LET cart == carts[userId]
              items == SelectSeq(cart.items, LAMBDA item : item.menuItemId # menuItemId) IN
       carts' = UpdateDoc(carts, userId,
                  [items |-> items, totalPrice |-> SumSubtotals(items)])

removeItem(userId, menuItemId) ==
  /\ UNCHANGED <<menuItems, stalls, orders, reviews, calls>>
  /\ IF removeItemResult(userId, menuItemId) # OK THEN UNCHANGED carts
     ELSE LET cart == carts[userId]
              items == SelectSeq(cart.items, LAMBDA item : item.menuItemId # menuItemId) IN
       IF Len(items) = 0 THEN carts' = DeleteDoc(carts, userId)
       ELSE carts' = UpdateDoc(carts, userId,
                       [items |-> items, totalPrice |-> SumSubtotals(items)])

\* no item of a cart has a quantity above max
QuantitiesWithin(cs, max) ==
  \A u \in DOMAIN cs : \A i \in 1..Len(cs[u].items) : cs[u].items[i].quantity <= max

\* the carts collection when clearCart leaves the cart of userId as it is
clearedCartsKept(userId) == carts

\* the carts collection after clearCart's delete of the cart of userId
clearedCarts(userId) == DeleteDoc(carts, userId)

clearCart(userId) ==
  /\ UNCHANGED <<menuItems, stalls, orders, reviews, calls>>
  /\ carts' = clearedCarts(userId)

---------------------------------------------------------------------------
(* Catalog component: menu items *)

\* checkOwnership followed by the handler's own result
menuUpdateResult(id, stallId, dto) ==
  IF id \notin DOMAIN menuItems THEN NOT_FOUND
  ELSE IF menuItems[id].stallId # stallId THEN FORBIDDEN
  ELSE OK

\* an update that also rewrites the item's price in the orders that hold it
menuUpdateCascade(id, stallId, dto) ==
  /\ UNCHANGED <<stalls, carts, reviews, calls>>
  /\ IF menuUpdateResult(id, stallId, dto) # OK THEN UNCHANGED <<menuItems, orders>>
     ELSE /\ menuItems' = UpdateDoc(menuItems, id, dto)
          /\ orders' =
               [o \in DOMAIN orders |->
                  [items |->
                     [i \in 1..Len(orders[o].items) |->
                        IF orders[o].items[i].menuItemId = id
                        THEN dto @@ orders[o].items[i]
                        ELSE orders[o].items[i]]] @@ orders[o]]

\* MenuItemsService.update without a new image
menuUpdate(id, stallId, dto) ==
  /\ UNCHANGED <<stalls, carts, orders, reviews, calls>>
  /\ IF menuUpdateResult(id, stallId, dto) # OK THEN UNCHANGED menuItems
     ELSE menuItems' = UpdateDoc(menuItems, id, dto)

menuRemoveResult(id, stallId) ==
  IF id \notin DOMAIN menuItems THEN NOT_FOUND
  ELSE IF menuItems[id].stallId # stallId THEN FORBIDDEN
  ELSE OK

\* MenuItemsService.remove
menuRemove(id, stallId) ==
  /\ UNCHANGED <<stalls, carts, orders, reviews, calls>>
  /\ IF menuRemoveResult(id, stallId) # OK THEN UNCHANGED menuItems
     ELSE menuItems' = DeleteDoc(menuItems, id)

---------------------------------------------------------------------------
(* Order engine *)

OrderIds == 1..MaxOrders

\* checkout with the cart cleared before the order is written
CHECKOUT_STEPS_ClearBeforeWrite == <<"getCart", "uploadImage", "clearCart", "setOrder">>

\* the remote calls of checkout in the order the code awaits them
CHECKOUT_STEPS == <<"getCart", "uploadImage", "setOrder", "clearCart">>

\* the position of a remote call in checkout
StepIndex(step) == CHOOSE i \in 1..Len(CHECKOUT_STEPS) : CHECKOUT_STEPS[i] = step

\* whether checkout's remote call `step` has run and succeeded when the call
\* `fail` is the one that throws
Completed(step, fail) == fail = "none" \/ StepIndex(step) < StepIndex(fail)

\* uuidv4(): an id no order has
NewOrderId == Cardinality(DOMAIN orders) + 1

\* the Order document checkout builds from the cart snapshot
OrderData(orderId, userId, cart, paymentProofUrl) ==
  [id |-> orderId,
   userId |-> userId,
   stallId |-> cart.stallId,
   stallName |-> cart.stallName,
   items |-> cart.items,
   totalPrice |-> cart.totalPrice,
   paymentProofUrl |-> paymentProofUrl,
   status |-> WAITING_CONFIRMATION,
   rejectionReason |-> Null]

\* the HTTP status checkout answers with
checkoutResult(userId, file, fail) ==
  IF validateImageFile(file) # "ok" THEN BAD_REQUEST
  ELSE IF fail = "getCart" THEN INTERNAL_SERVER_ERROR
  ELSE IF getCart(userId) = Null \/ Len(getCart(userId).items) = 0 THEN BAD_REQUEST
  ELSE IF fail # "none" THEN INTERNAL_SERVER_ERROR
  ELSE CREATED

checkout(userId, file, fail) ==
  /\ UNCHANGED <<menuItems, stalls, reviews, calls>>
  /\ IF \/ validateImageFile(file) # "ok"
        \/ ~Completed("getCart", fail)
        \/ getCart(userId) = Null
        \/ Len(getCart(userId).items) = 0
     THEN UNCHANGED <<carts, orders>>
     ELSE LET cart == getCart(userId)
              orderId == NewOrderId
              paymentProofUrl == uploadImage(file, orderId) IN
       /\ IF Completed("setOrder", fail)
          THEN /\ orderId <= MaxOrders
               /\ orders' = SetDoc(orders, orderId,
                              OrderData(orderId, userId, cart, paymentProofUrl))
          ELSE UNCHANGED orders
       /\ IF Completed("clearCart", fail)
          THEN carts' = clearedCarts(userId)
          ELSE UNCHANGED carts

\* uploadPaymentProof without the check of the order's status
uploadPaymentProofResultUnguarded(userId, orderId, file) ==
  IF validateImageFile(file) # "ok" THEN BAD_REQUEST
  ELSE IF orderId \notin DOMAIN orders THEN NOT_FOUND
  ELSE IF orders[orderId].userId # userId THEN FORBIDDEN
  ELSE OK

uploadPaymentProofResult(userId, orderId, file) ==
  IF validateImageFile(file) # "ok" THEN BAD_REQUEST
  ELSE IF orderId \notin DOMAIN orders THEN NOT_FOUND
  ELSE IF orders[orderId].userId # userId THEN FORBIDDEN
  ELSE IF orders[orderId].status # REJECTED THEN BAD_REQUEST
  ELSE OK

uploadPaymentProof(userId, orderId, file) ==
  /\ UNCHANGED <<menuItems, stalls, carts, reviews, calls>>
  /\ IF uploadPaymentProofResult(userId, orderId, file) # OK THEN UNCHANGED orders
     ELSE orders' = UpdateDoc(orders, orderId,
                      [paymentProofUrl |-> uploadImage(file, orderId),
                       status |-> WAITING_CONFIRMATION])

\* confirmPayment without the check of the order's status
confirmPaymentResultUnguarded(stallId, orderId) ==
  IF orderId \notin DOMAIN orders THEN NOT_FOUND
  ELSE IF orders[orderId].stallId # stallId THEN FORBIDDEN
  ELSE OK

confirmPaymentResult(stallId, orderId) ==
  IF orderId \notin DOMAIN orders THEN NOT_FOUND
  ELSE IF orders[orderId].stallId # stallId THEN FORBIDDEN
  ELSE IF orders[orderId].status # WAITING_CONFIRMATION THEN BAD_REQUEST
  ELSE OK

confirmPayment(stallId, orderId) ==
  /\ UNCHANGED <<menuItems, stalls, carts, reviews, calls>>
  /\ IF confirmPaymentResult(stallId, orderId) # OK THEN UNCHANGED orders
     ELSE orders' = UpdateDoc(orders, orderId, [status |-> CONFIRMED])

\* the length of a string
Length(str) == str.lead + str.body + str.trail

\* String.prototype.trim
Trim(str) == Str(0, str.body, 0)

\* RejectOrderSchema: reason is a string of min(10) and max(500), then trim()
RejectOrderSchema(dto) ==
  /\ dto.reason # Null
  /\ Length(dto.reason) >= 10
  /\ Length(dto.reason) <= 500

\* the bodies of a reject request
RejectDtos == {[reason |-> r] : r \in Reasons \cup {Null}}

rejectPaymentResult(stallId, orderId, dto) ==
  IF ~RejectOrderSchema(dto) THEN BAD_REQUEST
  ELSE IF orderId \notin DOMAIN orders THEN NOT_FOUND
  ELSE IF orders[orderId].stallId # stallId THEN FORBIDDEN
  ELSE IF orders[orderId].status # WAITING_CONFIRMATION THEN BAD_REQUEST
  ELSE OK

rejectPayment(stallId, orderId, dto) ==
  /\ UNCHANGED <<menuItems, stalls, carts, reviews, calls>>
  /\ IF rejectPaymentResult(stallId, orderId, dto) # OK THEN UNCHANGED orders
     ELSE orders' = UpdateDoc(orders, orderId,
                      [status |-> REJECTED, rejectionReason |-> Trim(dto.reason)])

\* completeOrder with the status checked before the ownership
completeOrderResultStatusFirst(stallId, orderId) ==
  IF orderId \notin DOMAIN orders THEN NOT_FOUND
  ELSE IF orders[orderId].status # CONFIRMED THEN BAD_REQUEST
  ELSE IF orders[orderId].stallId # stallId THEN FORBIDDEN
  ELSE OK

completeOrderResult(stallId, orderId) ==
  IF orderId \notin DOMAIN orders THEN NOT_FOUND
  ELSE IF orders[orderId].stallId # stallId THEN FORBIDDEN
  ELSE IF orders[orderId].status # CONFIRMED THEN BAD_REQUEST
  ELSE OK

completeOrder(stallId, orderId) ==
  /\ UNCHANGED <<menuItems, stalls, carts, reviews, calls>>
  /\ IF completeOrderResult(stallId, orderId) # OK THEN UNCHANGED orders
     ELSE orders' = UpdateDoc(orders, orderId, [status |-> COMPLETED])

\* the fields an OrderEntity copies from the stored order
OrderEntityFields ==
  {"id", "userId", "stallId", "stallName", "items", "itemsTotal", "appFee",
   "deliveryMethod", "deliveryFee", "totalPrice", "paymentProofUrl", "status",
   "rejectionReason"}

\* new OrderEntity(order).toJSON(): the fields are copied as they are stored,
\* a field the document lacks is undefined and left out of the JSON
OrderEntity(order) ==
  [f \in DOMAIN order \cap OrderEntityFields |-> order[f]]

\* getOrderDetail: the buyer reads one order
getOrderDetailResult(userId, orderId) ==
  IF orderId \notin DOMAIN orders THEN NOT_FOUND
  ELSE IF orders[orderId].userId # userId THEN FORBIDDEN
  ELSE OK

\* the body of getOrderDetail's answer, Null when it throws
getOrderDetail(userId, orderId) ==
  IF getOrderDetailResult(userId, orderId) # OK THEN Null
  ELSE OrderEntity(orders[orderId])

\* getStallOrderDetail: the stall owner reads one order
getStallOrderDetailResult(stallId, orderId) ==
  IF orderId \notin DOMAIN orders THEN NOT_FOUND
  ELSE IF orders[orderId].stallId # stallId THEN FORBIDDEN
  ELSE OK

\* the body of getStallOrderDetail's answer, Null when it throws
getStallOrderDetail(stallId, orderId) ==
  IF getStallOrderDetailResult(stallId, orderId) # OK THEN Null
  ELSE OrderEntity(orders[orderId])

\* the optional status filter of QueryOrderSchema: <<>> when it is not sent
StatusFilters == {<<>>} \cup {<<st>> : st \in OrderStatus}

\* getUserOrders: the entities of the buyer's orders that pass the filter
getUserOrders(userId, status) ==
  {OrderEntity(orders[o]) : o \in
     {i \in DOMAIN orders :
        /\ orders[i].userId = userId
        /\ status # <<>> => orders[i].status = status[1]}}

\* getStallOrders: the entities of the stall's orders that pass the filter
getStallOrders(stallId, status) ==
  {OrderEntity(orders[o]) : o \in
     {i \in DOMAIN orders :
        /\ orders[i].stallId = stallId
        /\ status # <<>> => orders[i].status = status[1]}}

---------------------------------------------------------------------------
(* Review component *)

\* uuidv4(): an id no review has
NewReviewId == Cardinality(DOMAIN reviews) + 1

RECURSIVE SumRatings(_, _)
\* the sum of the ratings of the reviews with the ids in ids
SumRatings(revs, ids) ==
  IF ids = {} THEN 0
  ELSE LET id == CHOOSE i \in ids : TRUE IN
         revs[id].rating + SumRatings(revs, ids \ {id})

\* a rounding that cuts the digits after the first decimal
toFixed1Truncated(totalRating, count) == (10 * totalRating) \div count

\* parseFloat((totalRating / count).toFixed(1)), in tenths
toFixed1(totalRating, count) == (20 * totalRating + count) \div (2 * count)

\* updateStallRating: the stalls collection after the recomputation over revs
updateStallRating(stallId, revs) ==
  LET ids == {i \in DOMAIN revs : revs[i].stallId = stallId} IN
    IF ids = {} THEN UpdateDoc(stalls, stallId, [rating |-> 0, totalReviews |-> 0])
    ELSE UpdateDoc(stalls, stallId,
           [rating |-> toFixed1(SumRatings(revs, ids), Cardinality(ids)),
            totalReviews |-> Cardinality(ids)])

\* the remote call of createReview that throws, "none" when all succeed
ReviewFailures == {"none", "setReview", "updateOrder", "updateStallRating"}

\* the writes of createReview in the order the code awaits them
REVIEW_STEPS == <<"setReview", "updateOrder", "updateStallRating">>

\* whether createReview's write `step` has run and succeeded when the call
\* `fail` is the one that throws
ReviewCompleted(step, fail) ==
  \/ fail = "none"
  \/ \E i, j \in 1..Len(REVIEW_STEPS) :
       REVIEW_STEPS[i] = step /\ REVIEW_STEPS[j] = fail /\ i < j

\* the guards of createReview up to the read of the stall
createReviewGuards(userId, orderId) ==
  IF orderId \notin DOMAIN orders THEN NOT_FOUND
  ELSE IF orders[orderId].userId # userId THEN FORBIDDEN
  ELSE IF orders[orderId].status # COMPLETED THEN BAD_REQUEST
  ELSE IF \E i \in DOMAIN reviews : reviews[i].orderId = orderId THEN BAD_REQUEST
  ELSE IF orders[orderId].stallId \notin DOMAIN stalls THEN NOT_FOUND
  ELSE CREATED

\* createReview without the query for a review of the same order
createReviewResultNoDuplicateCheck(userId, orderId, rating, fail) ==
  IF orderId \notin DOMAIN orders THEN NOT_FOUND
  ELSE IF orders[orderId].userId # userId THEN FORBIDDEN
  ELSE IF orders[orderId].status # COMPLETED THEN BAD_REQUEST
  ELSE IF orders[orderId].stallId \notin DOMAIN stalls THEN NOT_FOUND
  ELSE IF fail \in {"setReview", "updateOrder"} THEN INTERNAL_SERVER_ERROR
  ELSE CREATED

\* createReview that lets an error of updateStallRating reach the caller
createReviewResultSurfaced(userId, orderId, rating, fail) ==
  IF createReviewGuards(userId, orderId) # CREATED
  THEN createReviewGuards(userId, orderId)
  ELSE IF fail # "none" THEN INTERNAL_SERVER_ERROR
  ELSE CREATED

\* the HTTP status createReview answers with: an error of updateStallRating
\* is caught and logged inside updateStallRating
createReviewResult(userId, orderId, rating, fail) ==
  IF createReviewGuards(userId, orderId) # CREATED
  THEN createReviewGuards(userId, orderId)
  ELSE IF fail \in {"setReview", "updateOrder"} THEN INTERNAL_SERVER_ERROR
  ELSE CREATED

\* the Review document createReview writes
ReviewData(reviewId, userId, orderId, rating) ==
  [id |-> reviewId, orderId |-> orderId, userId |-> userId,
   stallId |-> orders[orderId].stallId,
   stallName |-> stalls[orders[orderId].stallId].name,
   rating |-> rating]

createReview(userId, orderId, rating, fail) ==
  /\ UNCHANGED <<menuItems, carts, calls>>
  /\ IF createReviewResult(userId, orderId, rating, fail) \notin {CREATED, INTERNAL_SERVER_ERROR}
     THEN UNCHANGED <<orders, reviews, stalls>>
     ELSE LET reviewId == NewReviewId IN
       /\ IF ReviewCompleted("setReview", fail)
          THEN reviews' = SetDoc(reviews, reviewId,
                            ReviewData(reviewId, userId, orderId, rating))
          ELSE UNCHANGED reviews
       /\ IF ReviewCompleted("updateOrder", fail)
          THEN orders' = UpdateDoc(orders, orderId, [isReviewed |-> TRUE])
          ELSE UNCHANGED orders
       /\ IF ReviewCompleted("updateStallRating", fail)
          THEN stalls' = updateStallRating(orders[orderId].stallId, reviews')
          ELSE UNCHANGED stalls

---------------------------------------------------------------------------

Next ==
  \/ \E u \in Shoppers, m \in ShopMenuIds, q \in Qtys :
       addToCart(u, m, q) /\ QuantitiesWithin(carts', MaxQuantity)
  \/ \E u \in Shoppers, m \in ShopMenuIds, q \in Qtys : updateItemQuantity(u, m, q)
  \/ \E u \in Shoppers, m \in ShopMenuIds : removeItem(u, m)
  \/ \E u \in Shoppers : clearCart(u)
  \/ \E m \in EditedMenuIds, s \in Stalls, dto \in UpdateDtos : menuUpdate(m, s, dto)
  \/ \E m \in EditedMenuIds, s \in Stalls : menuRemove(m, s)
  \/ \E u \in Shoppers, f \in FileInputs, fail \in CheckoutFailures : checkout(u, f, fail)
  \/ \E u \in Users, o \in OrderIds, f \in FileInputs : uploadPaymentProof(u, o, f)
  \/ \E s \in Stalls, o \in OrderIds : confirmPayment(s, o)
  \/ \E s \in Stalls, o \in OrderIds, dto \in RejectDtos : rejectPayment(s, o, dto)
  \/ \E s \in Stalls, o \in OrderIds : completeOrder(s, o)
  \/ \E u \in Users, o \in OrderIds, r \in Ratings : createReview(u, o, r, "none")

Spec == Init /\ [][Next]_vars

---------------------------------------------------------------------------
(* The cart of one user: every cart operation and checkout, one request at *)
(* a time, over the menu items of both stalls                              *)

NextCart ==
  \/ \E u \in Shoppers, m \in MenuIds, q \in CartQtys :
       addToCart(u, m, q) /\ QuantitiesWithin(carts', MaxCartQuantity)
  \/ \E u \in Shoppers, m \in MenuIds, q \in CartQtys : updateItemQuantity(u, m, q)
  \/ \E u \in Shoppers, m \in MenuIds : removeItem(u, m)
  \/ \E u \in Shoppers : clearCart(u)
  \/ \E u \in Shoppers, f \in FileInputs : checkout(u, f, "none")

SpecCart == Init /\ [][NextCart]_vars

---------------------------------------------------------------------------
(* The quantities of a cart: the cart endpoints with the validation of the *)
(* request body, one request at a time                                     *)

\* AddToCartSchema: quantity is an integer of min(1) and max(99)
AddToCartSchema(dto) == dto.quantity >= 1 /\ dto.quantity <= 99

\* UpdateCartItemSchema: quantity is an integer of min(1) and max(99)
UpdateCartItemSchema(dto) == dto.quantity >= 1 /\ dto.quantity <= 99

\* POST /cart/items: the body passes ZodValidationPipe before the service runs
postCartItems(userId, dto) ==
  IF ~AddToCartSchema(dto) THEN UNCHANGED vars
  ELSE addToCart(userId, dto.menuItemId, dto.quantity)

\* PATCH /cart/items/:menuItemId
patchCartItem(userId, menuItemId, dto) ==
  IF ~UpdateCartItemSchema(dto) THEN UNCHANGED vars
  ELSE updateItemQuantity(userId, menuItemId, dto.quantity)

NextQuantity ==
  \/ \E u \in Shoppers, m \in QuantityMenuIds, q \in QuantityInputs :
       /\ postCartItems(u, [menuItemId |-> m, quantity |-> q])
       /\ QuantitiesWithin(carts', MaxStoredQuantity)
  \/ \E u \in Shoppers, m \in QuantityMenuIds, q \in QuantityInputs :
       patchCartItem(u, m, [quantity |-> q])
  \/ \E u \in Shoppers, m \in QuantityMenuIds : removeItem(u, m)

SpecQuantity == Init /\ [][NextQuantity]_vars

---------------------------------------------------------------------------
(* Reviews of completed orders, one request at a time, with failing writes *)

\* the cart of one menu item that checkout turned into an order
CartOf(userId, menuItemId, quantity) ==
  LET menuItem == InitMenuItems[menuItemId]
      item == NewCartItem(menuItem, quantity) IN
    [userId |-> userId, stallId |-> menuItem.stallId,
     stallName |-> StallName(menuItem.stallId),
     items |-> <<item>>, totalPrice |-> item.subtotal]

\* an order after checkout, confirmPayment and completeOrder
CompletedOrder(orderId, userId, menuItemId) ==
  [status |-> COMPLETED] @@
    OrderData(orderId, userId, CartOf(userId, menuItemId, 2),
              uploadImage(<<[mimetype |-> "image/jpeg", size |-> 1024]>>, orderId))

\* completed orders: the first three at stall s1, the later ones at s2; the
\* second one bought by u2, the others by u1
ReviewOrders ==
  [o \in 1..MaxReviewOrders |->
     CompletedOrder(o, IF o = 2 THEN "u2" ELSE "u1", IF o > 3 THEN "m3" ELSE "m1")]

InitReviews ==
  /\ menuItems = InitMenuItems
  /\ stalls = InitStalls
  /\ carts = << >>
  /\ orders = ReviewOrders
  /\ reviews = << >>
  /\ calls = << >>

NextReviews ==
  \E u \in Users, o \in DOMAIN orders, r \in ReviewRatings, fail \in ReviewFailures :
    createReview(u, o, r, fail)

SpecReviews == InitReviews /\ [][NextReviews]_vars

---------------------------------------------------------------------------
(* createReview step by step: every await of the handler is one step, and  *)
(* the steps of the requests in flight interleave                          *)

\* the requests that may be in flight together
CallIds == {"c1", "c2"}

\* the local variables of a createReview call: seen is the snapshot of the
\* reviews that updateStallRating has queried
ReviewCall(userId, orderId, rating, pc, result) ==
  [op |-> "createReview", userId |-> userId, orderId |-> orderId,
   rating |-> rating, pc |-> pc, result |-> result, seen |-> << >>]

\* the call goes on to the await named pc
Goto(c, pc) == calls' = UpdateDoc(calls, c, [pc |-> pc])

\* the call answers with the HTTP status result
Return(c, result) == calls' = UpdateDoc(calls, c, [pc |-> "done", result |-> result])

\* 1. read the order; check that it exists, is the caller's and is COMPLETED
createReviewGetOrder(c, userId, orderId, rating) ==
  /\ c \notin DOMAIN calls
  /\ UNCHANGED <<menuItems, stalls, carts, orders, reviews>>
  /\ calls' = SetDoc(calls, c,
       IF orderId \notin DOMAIN orders
         THEN ReviewCall(userId, orderId, rating, "done", NOT_FOUND)
       ELSE IF orders[orderId].userId # userId
         THEN ReviewCall(userId, orderId, rating, "done", FORBIDDEN)
       ELSE IF orders[orderId].status # COMPLETED
         THEN ReviewCall(userId, orderId, rating, "done", BAD_REQUEST)
       ELSE ReviewCall(userId, orderId, rating, "checkDuplicate", Null))

\* 2. query the reviews of the order id
createReviewCheckDuplicate(c) ==
  /\ c \in DOMAIN calls
  /\ calls[c].pc = "checkDuplicate"
  /\ UNCHANGED <<menuItems, stalls, carts, orders, reviews>>
  /\ IF \E i \in DOMAIN reviews : reviews[i].orderId = calls[c].orderId
     THEN Return(c, BAD_REQUEST)
     ELSE Goto(c, "getStall")

\* 6. read the stall
createReviewGetStall(c) ==
  /\ c \in DOMAIN calls
  /\ calls[c].pc = "getStall"
  /\ UNCHANGED <<menuItems, stalls, carts, orders, reviews>>
  /\ IF orders[calls[c].orderId].stallId \notin DOMAIN stalls
     THEN Return(c, NOT_FOUND)
     ELSE Goto(c, "setReview")

\* 7. save the review under a fresh id
createReviewSetReview(c) ==
  /\ c \in DOMAIN calls
  /\ calls[c].pc = "setReview"
  /\ UNCHANGED <<menuItems, stalls, carts, orders>>
  /\ reviews' = SetDoc(reviews, NewReviewId,
                  ReviewData(NewReviewId, calls[c].userId, calls[c].orderId,
                             calls[c].rating))
  /\ Goto(c, "updateOrder")

\* 8. mark the order as reviewed
createReviewUpdateOrder(c) ==
  /\ c \in DOMAIN calls
  /\ calls[c].pc = "updateOrder"
  /\ UNCHANGED <<menuItems, stalls, carts, reviews>>
  /\ orders' = UpdateDoc(orders, calls[c].orderId, [isReviewed |-> TRUE])
  /\ Goto(c, "queryReviews")

\* 9a. updateStallRating: query the reviews of the stall
updateStallRatingQuery(c) ==
  /\ c \in DOMAIN calls
  /\ calls[c].pc = "queryReviews"
  /\ UNCHANGED <<menuItems, stalls, carts, orders, reviews>>
  /\ calls' = UpdateDoc(calls, c, [pc |-> "updateStall", seen |-> reviews])

\* 9b. updateStallRating: write the rating computed from the queried reviews
updateStallRatingUpdate(c) ==
  /\ c \in DOMAIN calls
  /\ calls[c].pc = "updateStall"
  /\ UNCHANGED <<menuItems, carts, orders, reviews>>
  /\ stalls' = updateStallRating(orders[calls[c].orderId].stallId, calls[c].seen)
  /\ Return(c, CREATED)

NextReviewRace ==
  \/ \E c \in CallIds, u \in Users, o \in DOMAIN orders, r \in ReviewRatings :
       createReviewGetOrder(c, u, o, r)
  \/ \E c \in CallIds : createReviewCheckDuplicate(c)
  \/ \E c \in CallIds : createReviewGetStall(c)
  \/ \E c \in CallIds : createReviewSetReview(c)
  \/ \E c \in CallIds : createReviewUpdateOrder(c)
  \/ \E c \in CallIds : updateStallRatingQuery(c)
  \/ \E c \in CallIds : updateStallRatingUpdate(c)

SpecReviewRace == InitReviews /\ [][NextReviewRace]_vars

---------------------------------------------------------------------------
(* The cart of one user under concurrent requests: every await of addToCart *)
(* and of checkout is one step, and the steps of the requests in flight     *)
(* interleave with each other and with clearCart                            *)

\* the proof files sent in the concurrent specification
RaceProofs == {<<[mimetype |-> "image/jpeg", size |-> 1024]>>}

\* the quantities sent in the concurrent specification
RaceQtys == {1}

\* the user has put one m1 in the cart before the concurrent requests start
InitCartRace ==
  /\ menuItems = InitMenuItems
  /\ stalls = InitStalls
  /\ carts = [u \in Shoppers |-> CartOf(u, "m1", 1)]
  /\ orders = << >>
  /\ reviews = << >>
  /\ calls = << >>

\* the local variables of an addToCart call: items and totalPrice are those
\* of existingCart after the item was added to it in memory
AddToCartCall(userId, menuItemId, quantity, pc, result) ==
  [op |-> "addToCart", userId |-> userId, menuItemId |-> menuItemId,
   quantity |-> quantity, pc |-> pc, result |-> result,
   menuItem |-> Null, stallName |-> "", existingCart |-> Null,
   items |-> << >>, totalPrice |-> 0]

\* 1. menuItemsService.findOne and the check of isAvailable
addToCartFindOne(c, userId, menuItemId, quantity) ==
  /\ c \notin DOMAIN calls
  /\ UNCHANGED <<menuItems, stalls, carts, orders, reviews>>
  /\ calls' = SetDoc(calls, c,
       IF menuItemId \notin DOMAIN menuItems
         THEN AddToCartCall(userId, menuItemId, quantity, "done", NOT_FOUND)
       ELSE IF ~menuItems[menuItemId].isAvailable
         THEN AddToCartCall(userId, menuItemId, quantity, "done", BAD_REQUEST)
       ELSE [menuItem |-> menuItems[menuItemId]] @@
              AddToCartCall(userId, menuItemId, quantity, "getStall", Null))

\* read the stall of the menu item
addToCartGetStall(c) ==
  /\ c \in DOMAIN calls
  /\ calls[c].op = "addToCart"
  /\ calls[c].pc = "getStall"
  /\ UNCHANGED <<menuItems, stalls, carts, orders, reviews>>
  /\ IF calls[c].menuItem.stallId \notin DOMAIN stalls
     THEN Return(c, NOT_FOUND)
     ELSE calls' = UpdateDoc(calls, c,
            [pc |-> "getCart", stallName |-> stalls[calls[c].menuItem.stallId].name])

\* 2. read the cart; with a cart: check its stall and add the item to the
\* copy in memory; without one: go on to create it
addToCartGetCart(c) ==
  /\ c \in DOMAIN calls
  /\ calls[c].op = "addToCart"
  /\ calls[c].pc = "getCart"
  /\ UNCHANGED <<menuItems, stalls, carts, orders, reviews>>
  /\ LET userId == calls[c].userId IN
       IF userId \in DOMAIN carts THEN
         IF carts[userId].stallId # calls[c].menuItem.stallId
         THEN Return(c, BAD_REQUEST)
         ELSE LET items == AddedItems(carts[userId].items, calls[c].menuItem,
                                      calls[c].quantity) IN
           calls' = UpdateDoc(calls, c,
             [pc |-> "updateCart", existingCart |-> carts[userId],
              items |-> items, totalPrice |-> SumSubtotals(items)])
       ELSE Goto(c, "setCart")

\* the items a writer that reads the cart again at its write would store
WrittenItemsMerged(c) ==
  AddedItems(carts[calls[c].userId].items, calls[c].menuItem, calls[c].quantity)

\* the items cartRef.update stores: those of the copy in memory
WrittenItems(c) == calls[c].items

\* cartRef.update({items, totalPrice}): an update of a document that does
\* not exist throws, which the catch turns into a 500
addToCartUpdateCart(c) ==
  /\ c \in DOMAIN calls
  /\ calls[c].op = "addToCart"
  /\ calls[c].pc = "updateCart"
  /\ UNCHANGED <<menuItems, stalls, orders, reviews>>
  /\ IF calls[c].userId \notin DOMAIN carts
     THEN UNCHANGED carts /\ Return(c, INTERNAL_SERVER_ERROR)
     ELSE /\ carts' = UpdateDoc(carts, calls[c].userId,
                        [items |-> WrittenItems(c),
                         totalPrice |-> SumSubtotals(WrittenItems(c))])
          /\ Return(c, OK)

\* cartRef.set(newCart): the document is created or replaced
addToCartSetCart(c) ==
  /\ c \in DOMAIN calls
  /\ calls[c].op = "addToCart"
  /\ calls[c].pc = "setCart"
  /\ UNCHANGED <<menuItems, stalls, orders, reviews>>
  /\ LET newItem == NewCartItem(calls[c].menuItem, calls[c].quantity) IN
       carts' = SetDoc(carts, calls[c].userId,
                  [userId |-> calls[c].userId, stallId |-> calls[c].menuItem.stallId,
                   stallName |-> calls[c].stallName,
                   items |-> <<newItem>>, totalPrice |-> newItem.subtotal])
  /\ Return(c, OK)

\* the local variables of a checkout call
CheckoutCall(userId, file, pc, result) ==
  [op |-> "checkout", userId |-> userId, file |-> file, pc |-> pc,
   result |-> result, cart |-> Null, orderId |-> 0]

\* validateImageFile and cartService.getCart (the read of the stall's QRIS
\* image that follows inside getCart touches no field of the model)
checkoutGetCart(c, userId, file) ==
  /\ c \notin DOMAIN calls
  /\ UNCHANGED <<menuItems, stalls, carts, orders, reviews>>
  /\ calls' = SetDoc(calls, c,
       IF validateImageFile(file) # "ok"
         THEN CheckoutCall(userId, file, "done", BAD_REQUEST)
       ELSE IF getCart(userId) = Null
         THEN CheckoutCall(userId, file, "done", BAD_REQUEST)
       ELSE IF Len(getCart(userId).items) = 0
         THEN CheckoutCall(userId, file, "done", BAD_REQUEST)
       ELSE [cart |-> getCart(userId)] @@
              CheckoutCall(userId, file, "uploadImage", Null))

\* upload the proof under the id generated for the order
checkoutUploadImage(c) ==
  /\ c \in DOMAIN calls
  /\ calls[c].op = "checkout"
  /\ calls[c].pc = "uploadImage"
  /\ UNCHANGED <<menuItems, stalls, carts, orders, reviews>>
  /\ Goto(c, "setOrder")

\* a write of the order that reads the cart again and refuses when it is gone
checkoutSetOrderIfCartExists(c) ==
  /\ c \in DOMAIN calls
  /\ calls[c].op = "checkout"
  /\ calls[c].pc = "setOrder"
  /\ UNCHANGED <<menuItems, stalls, carts, reviews>>
  /\ IF calls[c].userId \notin DOMAIN carts
     THEN UNCHANGED orders /\ Return(c, BAD_REQUEST)
     ELSE /\ orders' = SetDoc(orders, NewOrderId,
                         OrderData(NewOrderId, calls[c].userId, calls[c].cart,
                                   uploadImage(calls[c].file, NewOrderId)))
          /\ calls' = UpdateDoc(calls, c, [pc |-> "clearCart", orderId |-> NewOrderId])

\* save the order built from the cart that was read; the uuid of the order
\* is any id no order has, here the one that is free when the order is saved
checkoutSetOrder(c) ==
  /\ c \in DOMAIN calls
  /\ calls[c].op = "checkout"
  /\ calls[c].pc = "setOrder"
  /\ UNCHANGED <<menuItems, stalls, carts, reviews>>
  /\ orders' = SetDoc(orders, NewOrderId,
                 OrderData(NewOrderId, calls[c].userId, calls[c].cart,
                           uploadImage(calls[c].file, NewOrderId)))
  /\ calls' = UpdateDoc(calls, c, [pc |-> "clearCart", orderId |-> NewOrderId])

\* cartService.clearCart and the answer
checkoutClearCart(c) ==
  /\ c \in DOMAIN calls
  /\ calls[c].op = "checkout"
  /\ calls[c].pc = "clearCart"
  /\ UNCHANGED <<menuItems, stalls, orders, reviews>>
  /\ carts' = DeleteDoc(carts, calls[c].userId)
  /\ Return(c, CREATED)

NextCartRace ==
  \/ \E c \in CallIds, u \in Shoppers, m \in MenuIds, q \in RaceQtys :
       addToCartFindOne(c, u, m, q)
  \/ \E c \in CallIds : addToCartGetStall(c)
  \/ \E c \in CallIds : addToCartGetCart(c)
  \/ \E c \in CallIds : addToCartUpdateCart(c)
  \/ \E c \in CallIds : addToCartSetCart(c)
  \/ \E u \in Shoppers : clearCart(u)
  \/ \E c \in CallIds, u \in Shoppers, f \in RaceProofs : checkoutGetCart(c, u, f)
  \/ \E c \in CallIds : checkoutUploadImage(c)
  \/ \E c \in CallIds : checkoutSetOrder(c)
  \/ \E c \in CallIds : checkoutClearCart(c)

SpecCartRace == InitCartRace /\ [][NextCartRace]_vars

---------------------------------------------------------------------------
(* confirmPayment and rejectPayment step by step on an order that waits for *)
(* confirmation: every await of the handlers is one step                    *)

\* the order of u1 at stall s1 as checkout wrote it
InitConfirmRace ==
  /\ menuItems = InitMenuItems
  /\ stalls = InitStalls
  /\ carts = << >>
  /\ orders = SetDoc(<< >>, 1,
                OrderData(1, "u1", CartOf("u1", "m1", 2),
                          uploadImage(<<[mimetype |-> "image/jpeg", size |-> 1024]>>, 1)))
  /\ reviews = << >>
  /\ calls = << >>

\* the local variables of a confirmPayment call: updatedStatus is the status
\* of the order the call answers with
ConfirmCall(stallId, orderId, pc, result) ==
  [op |-> "confirmPayment", stallId |-> stallId, orderId |-> orderId,
   pc |-> pc, result |-> result, updatedStatus |-> ""]

\* the local variables of a rejectPayment call
RejectCall(stallId, orderId, dto, pc, result) ==
  [op |-> "rejectPayment", stallId |-> stallId, orderId |-> orderId,
   dto |-> dto, pc |-> pc, result |-> result, updatedStatus |-> ""]

\* read the order; check that it exists, is the stall's and waits for
\* confirmation
confirmPaymentGetOrder(c, stallId, orderId) ==
  /\ c \notin DOMAIN calls
  /\ UNCHANGED <<menuItems, stalls, carts, orders, reviews>>
  /\ calls' = SetDoc(calls, c,
       IF confirmPaymentResult(stallId, orderId) # OK
       THEN ConfirmCall(stallId, orderId, "done", confirmPaymentResult(stallId, orderId))
       ELSE ConfirmCall(stallId, orderId, "update", Null))

\* update the status
confirmPaymentUpdate(c) ==
  /\ c \in DOMAIN calls
  /\ calls[c].op = "confirmPayment"
  /\ calls[c].pc = "update"
  /\ UNCHANGED <<menuItems, stalls, carts, reviews>>
  /\ orders' = UpdateDoc(orders, calls[c].orderId, [status |-> CONFIRMED])
  /\ Goto(c, "getUpdated")

\* read the order again and answer with it
confirmPaymentGetUpdated(c) ==
  /\ c \in DOMAIN calls
  /\ calls[c].op = "confirmPayment"
  /\ calls[c].pc = "getUpdated"
  /\ UNCHANGED <<menuItems, stalls, carts, orders, reviews>>
  /\ calls' = UpdateDoc(calls, c,
       [pc |-> "done", result |-> OK,
        updatedStatus |-> OrderEntity(orders[calls[c].orderId]).status])

\* the body passes ZodValidationPipe; then read the order and check it
rejectPaymentGetOrder(c, stallId, orderId, dto) ==
  /\ c \notin DOMAIN calls
  /\ UNCHANGED <<menuItems, stalls, carts, orders, reviews>>
  /\ calls' = SetDoc(calls, c,
       IF rejectPaymentResult(stallId, orderId, dto) # OK
       THEN RejectCall(stallId, orderId, dto, "done",
                       rejectPaymentResult(stallId, orderId, dto))
       ELSE RejectCall(stallId, orderId, [reason |-> Trim(dto.reason)], "update", Null))

\* update the status and the rejection reason
rejectPaymentUpdate(c) ==
  /\ c \in DOMAIN calls
  /\ calls[c].op = "rejectPayment"
  /\ calls[c].pc = "update"
  /\ UNCHANGED <<menuItems, stalls, carts, reviews>>
  /\ orders' = UpdateDoc(orders, calls[c].orderId,
                 [status |-> REJECTED, rejectionReason |-> calls[c].dto.reason])
  /\ Goto(c, "getUpdated")

\* read the order again and answer with it
rejectPaymentGetUpdated(c) ==
  /\ c \in DOMAIN calls
  /\ calls[c].op = "rejectPayment"
  /\ calls[c].pc = "getUpdated"
  /\ UNCHANGED <<menuItems, stalls, carts, orders, reviews>>
  /\ calls' = UpdateDoc(calls, c,
       [pc |-> "done", result |-> OK,
        updatedStatus |-> OrderEntity(orders[calls[c].orderId]).status])

NextConfirmRace ==
  \/ \E c \in CallIds, s \in Stalls, o \in DOMAIN orders :
       confirmPaymentGetOrder(c, s, o)
  \/ \E c \in CallIds : confirmPaymentUpdate(c)
  \/ \E c \in CallIds : confirmPaymentGetUpdated(c)
  \/ \E c \in CallIds, s \in Stalls, o \in DOMAIN orders, dto \in RejectDtos :
       rejectPaymentGetOrder(c, s, o, dto)
  \/ \E c \in CallIds : rejectPaymentUpdate(c)
  \/ \E c \in CallIds : rejectPaymentGetUpdated(c)

SpecConfirmRace == InitConfirmRace /\ [][NextConfirmRace]_vars

---------------------------------------------------------------------------
(* Properties of the order engine *)

\* a proof file that passes validation
ValidProof == <<[mimetype |-> "image/jpeg", size |-> 1024]>>

\* a proof file of a type that is no image
PdfProof == <<[mimetype |-> "application/pdf", size |-> 1024]>>

\* the documented fees of an order
APP_FEE == 1000
DELIVERY_FEE == 5000

\* the order document carries the three parts of its total
HasFees(o) == {"itemsTotal", "appFee", "deliveryFee"} \subseteq DOMAIN o

\* C1: in every reachable state every stored order has
\* totalPrice = itemsTotal + appFee + deliveryFee
C1_TotalPriceIsSumOfParts ==
  \A id \in DOMAIN orders :
    /\ HasFees(orders[id])
    /\ orders[id].totalPrice =
         orders[id].itemsTotal + orders[id].appFee + orders[id].deliveryFee

\* C2: asked by the owner of the order, confirmPayment and rejectPayment
\* succeed only from WAITING_CONFIRMATION and uploadPaymentProof only from
\* REJECTED; from any other status each answers 400 and changes nothing
C2_TransitionGuards ==
  [][\A o \in DOMAIN orders :
       LET order == orders[o] IN
         /\ confirmPaymentResult(order.stallId, o) = OK
              => order.status = WAITING_CONFIRMATION
         /\ order.status # WAITING_CONFIRMATION =>
              /\ confirmPaymentResult(order.stallId, o) = BAD_REQUEST
              /\ UNCHANGED vars \/ ~confirmPayment(order.stallId, o)
         /\ \A dto \in RejectDtos :
              /\ rejectPaymentResult(order.stallId, o, dto) = OK
                   => order.status = WAITING_CONFIRMATION
              /\ order.status # WAITING_CONFIRMATION =>
                   /\ rejectPaymentResult(order.stallId, o, dto) = BAD_REQUEST
                   /\ UNCHANGED vars \/ ~rejectPayment(order.stallId, o, dto)
         /\ \A f \in FileInputs :
              /\ uploadPaymentProofResult(order.userId, o, f) = OK
                   => order.status = REJECTED
              /\ order.status # REJECTED =>
                   /\ uploadPaymentProofResult(order.userId, o, f) = BAD_REQUEST
                   /\ UNCHANGED vars \/ ~uploadPaymentProof(order.userId, o, f)]_vars

\* a rejected order: its owner's confirm is refused, its buyer's resubmission
\* is accepted
C2_Witness ==
  \E o \in DOMAIN orders :
    /\ orders[o].status = REJECTED
    /\ confirmPaymentResult(orders[o].stallId, o) = BAD_REQUEST
    /\ uploadPaymentProofResult(orders[o].userId, o, ValidProof) = OK

\* C3: asked by the owning stall, completeOrder succeeds exactly when the
\* order's status is PROCESSING and answers 400 in any other status
C3_CompleteOnlyFromProcessing ==
  \A o \in DOMAIN orders :
    /\ completeOrderResult(orders[o].stallId, o) = OK
         <=> orders[o].status = PROCESSING
    /\ orders[o].status # PROCESSING
         => completeOrderResult(orders[o].stallId, o) = BAD_REQUEST

\* C4: a successful confirmPayment stores the status PROCESSING, and no step
\* leaves an order with the legacy status CONFIRMED
C4_ApproveStoresProcessing ==
  [][/\ \A s \in Stalls, o \in OrderIds :
          confirmPayment(s, o) /\ confirmPaymentResult(s, o) = OK
            => orders'[o].status = PROCESSING
     /\ \A o \in DOMAIN orders' : orders'[o].status # CONFIRMED]_vars

\* C5: after a successful uploadPaymentProof the order's status is
\* WAITING_CONFIRMATION and its rejectionReason is null
C5_ResubmitClearsReason ==
  [][\A u \in Users, o \in OrderIds, f \in FileInputs :
       uploadPaymentProof(u, o, f) /\ uploadPaymentProofResult(u, o, f) = OK
         => /\ orders'[o].status = WAITING_CONFIRMATION
            /\ orders'[o].rejectionReason = Null]_vars

\* C6: checkout answers an error, creates no order and leaves the cart as it
\* is when the caller has no cart or an empty one, or the proof is missing,
\* is no jpeg, png or webp image, or is larger than 5 MB
C6_CheckoutRejects ==
  [][\A u \in Users, f \in FileInputs, fail \in CheckoutFailures :
       (\/ u \notin DOMAIN carts
        \/ Len(carts[u].items) = 0
        \/ f = <<>>
        \/ f[1].mimetype \notin {"image/jpeg", "image/jpg", "image/png", "image/webp"}
        \/ f[1].size > 5 * 1024 * 1024)
       => /\ checkoutResult(u, f, fail) >= BAD_REQUEST
          /\ (orders' = orders /\ carts' = carts) \/ ~checkout(u, f, fail)]_vars

\* u1 has a cart and sends a pdf, u2 has no cart: both checkouts are refused
C6_Witness ==
  /\ "u1" \in DOMAIN carts
  /\ Len(carts["u1"].items) > 0
  /\ "u2" \notin DOMAIN carts
  /\ checkoutResult("u1", PdfProof, "none") = BAD_REQUEST
  /\ checkoutResult("u2", ValidProof, "none") = BAD_REQUEST

\* C7: after a checkout that answers 201 the user has no cart document
C7_CartGoneAfterCheckout ==
  [][\A u \in Users, f \in FileInputs, fail \in CheckoutFailures :
       checkoutResult(u, f, fail) = CREATED /\ checkout(u, f, fail)
         => u \notin DOMAIN carts']_vars

\* an order was just created and its buyer has no cart
C7_Witness ==
  \E o \in DOMAIN orders :
    /\ orders[o].status = WAITING_CONFIRMATION
    /\ orders[o].rejectionReason = Null
    /\ orders[o].userId \notin DOMAIN carts

\* C8: a checkout whose proof upload fails writes no order and leaves the
\* cart; one whose order write fails leaves the cart; the cart is deleted
\* only in a step that has written the order
C8_CheckoutOrdering ==
  [][\A u \in Users, f \in FileInputs, fail \in CheckoutFailures :
       (orders' # orders \/ carts' # carts) /\ checkout(u, f, fail) =>
         /\ fail \notin {"uploadImage", "setOrder"}
         /\ carts' # carts =>
              /\ NewOrderId \in DOMAIN orders'
              /\ orders'[NewOrderId].userId = u
              /\ orders'[NewOrderId].items = carts[u].items]_vars

\* the order is written and the cart it came from still exists: the write
\* came first and the delete failed
C8_Witness ==
  \E o \in DOMAIN orders :
    /\ orders[o].userId \in DOMAIN carts
    /\ orders[o].items = carts[orders[o].userId].items
    /\ orders[o].status = WAITING_CONFIRMATION

\* C9: no step changes the items of an existing order, and a new order's
\* items are those of its buyer's cart
C9_ItemsFrozen ==
  [][/\ \A o \in DOMAIN orders :
          o \in DOMAIN orders' /\ orders'[o].items = orders[o].items
     /\ \A o \in DOMAIN orders' \ DOMAIN orders :
          /\ orders'[o].userId \in DOMAIN carts
          /\ orders'[o].items = carts[orders'[o].userId].items]_vars

\* a completed and reviewed order still holds m1 at the price of its
\* checkout while the menu item has a new price
C9_Witness ==
  \E o \in DOMAIN orders :
    /\ orders[o].status = COMPLETED
    /\ "isReviewed" \in DOMAIN orders[o]
    /\ orders[o].items[1].menuItemId = "m1"
    /\ orders[o].items[1].price = 15000
    /\ "m1" \in DOMAIN menuItems
    /\ menuItems["m1"].price = 20000

\* C10: the order checkout creates has itemsTotal = the cart's totalPrice,
\* appFee = 1000, deliveryFee = 5000 for delivery and 0 for pickup,
\* totalPrice = their sum and status WAITING_CONFIRMATION
C10_CheckoutTotals ==
  [][\A u \in Users, f \in FileInputs, fail \in CheckoutFailures :
       checkoutResult(u, f, fail) = CREATED /\ checkout(u, f, fail) =>
         LET o == orders'[NewOrderId] IN
           /\ o.status = WAITING_CONFIRMATION
           /\ HasFees(o)
           /\ "deliveryMethod" \in DOMAIN o
           /\ o.itemsTotal = carts[u].totalPrice
           /\ o.appFee = APP_FEE
           /\ o.deliveryFee = (IF o.deliveryMethod = "delivery" THEN DELIVERY_FEE ELSE 0)
           /\ o.totalPrice = o.itemsTotal + o.appFee + o.deliveryFee]_vars

\* C11 as stated: every operation addressed by order id answers 403 to a
\* caller who is not the owner, whatever the status and whatever the request
\* carries, and leaves the order unchanged
C11_NonOwnerAlwaysForbidden ==
  \A o \in DOMAIN orders :
    /\ \A u \in Users \ {orders[o].userId} :
         /\ getOrderDetailResult(u, o) = FORBIDDEN
         /\ \A f \in FileInputs : uploadPaymentProofResult(u, o, f) = FORBIDDEN
    /\ \A s \in Stalls \ {orders[o].stallId} :
         /\ getStallOrderDetailResult(s, o) = FORBIDDEN
         /\ confirmPaymentResult(s, o) = FORBIDDEN
         /\ completeOrderResult(s, o) = FORBIDDEN
         /\ \A dto \in RejectDtos : rejectPaymentResult(s, o, dto) = FORBIDDEN

\* C11 (amended): a caller who is not the owner gets 403 from the detail
\* reads, confirm and complete in every status, and from resubmission and
\* reject when the proof file and the reason pass validation; a file or a
\* reason that fails validation gets 400; in all cases nothing is written
C11_NonOwnerForbidden ==
  [][\A o \in DOMAIN orders :
       /\ \A u \in Users \ {orders[o].userId} :
            /\ getOrderDetailResult(u, o) = FORBIDDEN
            /\ \A f \in FileInputs :
                 /\ uploadPaymentProofResult(u, o, f) =
                      (IF validateImageFile(f) = "ok" THEN FORBIDDEN ELSE BAD_REQUEST)
                 /\ UNCHANGED vars \/ ~uploadPaymentProof(u, o, f)
       /\ \A s \in Stalls \ {orders[o].stallId} :
            /\ getStallOrderDetailResult(s, o) = FORBIDDEN
            /\ confirmPaymentResult(s, o) = FORBIDDEN
            /\ completeOrderResult(s, o) = FORBIDDEN
            /\ UNCHANGED vars \/ ~confirmPayment(s, o)
            /\ UNCHANGED vars \/ ~completeOrder(s, o)
            /\ \A dto \in RejectDtos :
                 /\ rejectPaymentResult(s, o, dto) =
                      (IF RejectOrderSchema(dto) THEN FORBIDDEN ELSE BAD_REQUEST)
                 /\ UNCHANGED vars \/ ~rejectPayment(s, o, dto)]_vars

\* a rejected order: its buyer may resubmit and another user is refused with
\* 403; its stall is refused with 400 and another stall with 403
C11_Witness ==
  \E o \in DOMAIN orders :
    /\ orders[o].status = REJECTED
    /\ uploadPaymentProofResult(orders[o].userId, o, ValidProof) = OK
    /\ \E u \in Users : uploadPaymentProofResult(u, o, ValidProof) = FORBIDDEN
    /\ completeOrderResult(orders[o].stallId, o) = BAD_REQUEST
    /\ \E s \in Stalls : completeOrderResult(s, o) = FORBIDDEN

\* C12: a reject whose reason is absent, shorter than 10 or longer than 500
\* characters answers a validation error and changes nothing, and every
\* rejectionReason stored on an order has 10 to 500 characters
C12_RejectReasonValidated ==
  [][/\ \A s \in Stalls, o \in OrderIds, dto \in RejectDtos :
          (\/ dto.reason = Null
           \/ Length(dto.reason) < 10
           \/ Length(dto.reason) > 500)
          => /\ rejectPaymentResult(s, o, dto) = BAD_REQUEST
             /\ rejectPayment(s, o, dto) => UNCHANGED vars
     /\ \A o \in DOMAIN orders' :
          orders'[o].rejectionReason # Null
          => /\ Length(orders'[o].rejectionReason) >= 10
             /\ Length(orders'[o].rejectionReason) <= 500]_vars

\* the reviews of a stall
ReviewsOfStall(revs, stallId) == {i \in DOMAIN revs : revs[i].stallId = stallId}

\* rating, in tenths, is the mean totalRating / count rounded to one decimal
RoundsTo(rating, totalRating, count) ==
  LET d == 10 * totalRating - rating * count IN
    2 * (IF d < 0 THEN 0 - d ELSE d) <= count

\* C13: createReview by the buyer succeeds only for a COMPLETED order that
\* has no review; for an order that has a review it fails and writes nothing
C13_ReviewOncePerCompletedOrder ==
  [][\A o \in DOMAIN orders, r \in Ratings, fail \in ReviewFailures :
       LET u == orders[o].userId
           reviewed == \E i \in DOMAIN reviews : reviews[i].orderId = o IN
         /\ createReviewResult(u, o, r, fail) = CREATED
              => orders[o].status = COMPLETED /\ ~reviewed
         /\ reviewed =>
              /\ createReviewResult(u, o, r, fail) = BAD_REQUEST
              /\ createReview(u, o, r, fail) => UNCHANGED vars]_vars

\* an order was reviewed once and a second review of it is refused
C13_Witness ==
  \E o \in DOMAIN orders :
    /\ "isReviewed" \in DOMAIN orders[o]
    /\ Cardinality({i \in DOMAIN reviews : reviews[i].orderId = o}) = 1
    /\ createReviewResult(orders[o].userId, o, 4, "none") = BAD_REQUEST

C16_RatingFailureSwallowed ==
  [][\A u \in Users, o \in DOMAIN orders, r \in ReviewRatings :
       /\ createReviewGuards(u, o) = CREATED
       /\ createReview(u, o, r, "updateStallRating")
       => /\ createReviewResult(u, o, r, "updateStallRating") = CREATED
          /\ \E i \in DOMAIN reviews' \ DOMAIN reviews :
               reviews'[i].orderId = o /\ reviews'[i].rating = r]_vars

\* a reviewed order whose stall still shows no review: the recomputation of
\* its review failed
C16_Witness ==
  \E o \in DOMAIN orders :
    /\ "isReviewed" \in DOMAIN orders[o]
    /\ \E i \in DOMAIN reviews : reviews[i].orderId = o
    /\ stalls[orders[o].stallId].totalReviews = 0

\* C14: in every reachable state at most one review document exists per
\* order id, also when createReview calls for one order interleave
C14_OneReviewPerOrder ==
  \A o \in DOMAIN orders :
    Cardinality({i \in DOMAIN reviews : reviews[i].orderId = o}) <= 1

\* C17: once an order's status is COMPLETED no step changes it
C17_CompletedIsTerminal ==
  [][\A o \in DOMAIN orders :
       orders[o].status = COMPLETED
         => o \in DOMAIN orders' /\ orders'[o].status = COMPLETED]_vars

\* a completed and reviewed order on which every transition is refused
C17_Witness ==
  \E o \in DOMAIN orders :
    /\ orders[o].status = COMPLETED
    /\ "isReviewed" \in DOMAIN orders[o]
    /\ confirmPaymentResult(orders[o].stallId, o) = BAD_REQUEST
    /\ rejectPaymentResult(orders[o].stallId, o, [reason |-> Str(0, 19, 0)]) = BAD_REQUEST
    /\ completeOrderResult(orders[o].stallId, o) = BAD_REQUEST
    /\ uploadPaymentProofResult(orders[o].userId, o, ValidProof) = BAD_REQUEST

\* a step of an operation of the stall owner on the order
StallOwnerOperation(o) ==
  \E s \in Stalls :
    \/ confirmPayment(s, o)
    \/ completeOrder(s, o)
    \/ \E dto \in RejectDtos : rejectPayment(s, o, dto)

\* C18: for an order that has been approved (PROCESSING, stored by the code
\* as CONFIRMED) the stall owner has an operation that moves it to READY
C18_ReadyReachable ==
  \A o \in DOMAIN orders :
    orders[o].status \in {PROCESSING, CONFIRMED}
      => ENABLED (StallOwnerOperation(o) /\ orders'[o].status = READY)

\* C19: every order returned by the detail reads and the lists is presented
\* with PROCESSING when its stored status is CONFIRMED, and no answer
\* carries the status CONFIRMED
C19_ConfirmedPresentedAsProcessing ==
  \A o \in DOMAIN orders :
    LET u == orders[o].userId
        s == orders[o].stallId IN
      /\ getOrderDetail(u, o).status # CONFIRMED
      /\ getStallOrderDetail(s, o).status # CONFIRMED
      /\ orders[o].status = CONFIRMED =>
           /\ getOrderDetail(u, o).status = PROCESSING
           /\ getStallOrderDetail(s, o).status = PROCESSING
      /\ \A f \in StatusFilters :
           \A e \in getUserOrders(u, f) \cup getStallOrders(s, f) :
             e.status # CONFIRMED

\* the stall that owns a menu item
StallOf(menuItemId) == InitMenuItems[menuItemId].stallId

\* C20: with cart operations that run one at a time, every item of a user's
\* cart is a menu item of the stall recorded as the cart's stallId
C20_SingleStallCart ==
  \A u \in DOMAIN carts :
    \A i \in 1..Len(carts[u].items) :
      StallOf(carts[u].items[i].menuItemId) = carts[u].stallId

\* a cart with two items of stall s1 to which an item of s2 is refused
C20_Witness ==
  \E u \in DOMAIN carts :
    /\ Len(carts[u].items) = 2
    /\ carts[u].stallId = "s1"
    /\ addToCartResult(u, "m3", 1) = BAD_REQUEST
    /\ orders # << >>

---------------------------------------------------------------------------
(* Properties of the cart *)

\* C21: an addToCart of a menu item of another stall than the cart's
\* replaces the cart: afterwards the cart holds only the new item and its
\* stallId is the stall of that item
C21_OtherStallReplacesCart ==
  \A u \in DOMAIN carts, m \in DOMAIN menuItems, q \in CartQtys :
    /\ menuItems[m].isAvailable
    /\ menuItems[m].stallId \in DOMAIN stalls
    /\ carts[u].stallId # menuItems[m].stallId
    => ENABLED /\ addToCart(u, m, q)
               /\ u \in DOMAIN carts'
               /\ carts'[u].stallId = menuItems[m].stallId
               /\ carts'[u].items = <<NewCartItem(menuItems[m], q)>>

\* C22: in every reachable state every cart item's subtotal is its price
\* times its quantity and the cart's totalPrice is the sum of the subtotals
C22_CartArithmetic ==
  \A u \in DOMAIN carts :
    /\ \A i \in 1..Len(carts[u].items) :
         carts[u].items[i].subtotal =
           carts[u].items[i].price * carts[u].items[i].quantity
    /\ carts[u].totalPrice = SumSubtotals(carts[u].items)

\* a cart of two items, the first added after an earlier first item was
\* removed, one of them grown to the quantity 3 by a repeated add
C22_Witness ==
  \E u \in DOMAIN carts :
    /\ Len(carts[u].items) = 2
    /\ carts[u].items[1].menuItemId = "m2"
    /\ carts[u].items[2].menuItemId = "m1"
    /\ carts[u].items[1].quantity = 3
    /\ carts[u].items[2].quantity = 1
    /\ carts[u].totalPrice = 3 * 5000 + 15000

\* C23: in every reachable state every cart item's quantity is within 1..99,
\* the requests being addToCart and updateItemQuantity with a body that
\* passes validation, the same menu item added repeatedly included
C23_QuantityWithinRange ==
  \A u \in DOMAIN carts :
    \A i \in 1..Len(carts[u].items) :
      carts[u].items[i].quantity >= 1 /\ carts[u].items[i].quantity <= 99

\* C24: no cart document has an empty items list: a removeItem that removes
\* the last item deletes the document, and no other operation empties items
C24_NoEmptyCart ==
  \A u \in DOMAIN carts : Len(carts[u].items) > 0

\* a cart whose only item is m2, left after m1 was removed from it or put
\* there after a checkout; removing m2 deletes the cart document
C24_Witness ==
  \E u \in DOMAIN carts :
    /\ Len(carts[u].items) = 1
    /\ carts[u].items[1].menuItemId = "m2"
    /\ removeItemResult(u, "m2") = OK
    /\ ENABLED (removeItem(u, "m2") /\ u \notin DOMAIN carts')

---------------------------------------------------------------------------
(* Properties of concurrent requests *)

\* C25: two checkout calls of one user that have both read the same cart,
\* neither read being held back by the other's write of its order or delete
\* of the cart, both answer 201 and leave two distinct orders that hold the
\* items of that one cart
C25_ConcurrentCheckoutsBothSucceed ==
  \A c, d \in DOMAIN calls :
    /\ c # d
    /\ calls[c].op = "checkout" /\ calls[d].op = "checkout"
    /\ calls[c].userId = calls[d].userId
    /\ calls[c].cart # Null /\ calls[d].cart = calls[c].cart
    /\ calls[c].pc = "done" /\ calls[d].pc = "done"
    => /\ calls[c].result = CREATED /\ calls[d].result = CREATED
       /\ calls[c].orderId # calls[d].orderId
       /\ \A o \in {calls[c].orderId, calls[d].orderId} :
            /\ o \in DOMAIN orders
            /\ orders[o].userId = calls[c].userId
            /\ orders[o].items = calls[c].cart.items
            /\ orders[o].totalPrice = calls[c].cart.totalPrice

\* both checkout calls have answered 201: two orders hold the items of the
\* one cart the user had, and the cart is gone
C25_Witness ==
  /\ DOMAIN calls = CallIds
  /\ \A c \in CallIds :
       /\ calls[c].op = "checkout"
       /\ calls[c].pc = "done"
       /\ calls[c].result = CREATED
       /\ calls[c].cart = CartOf(calls[c].userId, "m1", 1)
  /\ Cardinality(DOMAIN orders) = 2
  /\ \A o \in DOMAIN orders : orders[o].items = CartOf("u1", "m1", 1).items
  /\ carts = << >>

\* C26: of two addToCart calls of one user that have both read the same cart
\* before either wrote, the later write stores exactly the items and the
\* totalPrice it computed from the cart it read, without the addition of the
\* call that wrote first
C26_LastWriterWins ==
  [][\A c, d \in DOMAIN calls :
       /\ c # d
       /\ calls[c].op = "addToCart" /\ calls[d].op = "addToCart"
       /\ calls[c].userId = calls[d].userId
       /\ calls[c].pc = "updateCart"
       /\ calls[d].pc = "done" /\ calls[d].result = OK
       /\ calls[d].existingCart # Null
       /\ calls[d].existingCart = calls[c].existingCart
       /\ calls[c].userId \in DOMAIN carts
       /\ addToCartUpdateCart(c)
       => LET read == calls[c].existingCart.items
              own == AddedItems(read, calls[c].menuItem, calls[c].quantity)
              both == AddedItems(calls[d].items, calls[c].menuItem, calls[c].quantity) IN
            /\ calls'[c].result = OK
            /\ carts'[calls[c].userId].items = own
            /\ carts'[calls[c].userId].totalPrice = SumSubtotals(own)
            /\ carts'[calls[c].userId].items # both]_vars

\* two addToCart calls of different menu items read the same cart and both
\* answered 200; the cart holds the items of one call, and the menu item of
\* the other is not in it
C26_Witness ==
  \E c, d \in DOMAIN calls :
    /\ calls[c].op = "addToCart" /\ calls[d].op = "addToCart"
    /\ calls[c].pc = "done" /\ calls[c].result = OK
    /\ calls[d].pc = "done" /\ calls[d].result = OK
    /\ calls[c].existingCart # Null
    /\ calls[d].existingCart = calls[c].existingCart
    /\ calls[c].menuItemId = "m1" /\ calls[d].menuItemId = "m2"
    /\ calls[c].userId \in DOMAIN carts
    /\ carts[calls[c].userId].items = calls[c].items
    /\ carts[calls[c].userId].totalPrice = 2 * 15000
    /\ findIndex(carts[calls[c].userId].items, "m2") = 0

\* C28: also when the read and write steps of concurrent cart requests of
\* one user interleave, every item of the cart is a menu item of the stall
\* recorded as the cart's stallId
C28_SingleStallCartInterleaved ==
  \A u \in DOMAIN carts :
    \A i \in 1..Len(carts[u].items) :
      /\ carts[u].items[i].menuItemId \in DOMAIN menuItems
      /\ menuItems[carts[u].items[i].menuItemId].stallId = carts[u].stallId

\* C27: of a confirmPayment and a rejectPayment that the stall owner issues
\* together for an order in WAITING_CONFIRMATION at most one answers
\* success, and the order's final status is the one that call set
C27_ConfirmRejectExclusive ==
  \A c, d \in DOMAIN calls :
    /\ calls[c].op = "confirmPayment" /\ calls[d].op = "rejectPayment"
    /\ calls[c].orderId = calls[d].orderId
    /\ calls[c].pc = "done" /\ calls[d].pc = "done"
    => /\ ~(calls[c].result = OK /\ calls[d].result = OK)
       /\ calls[c].result = OK => orders[calls[c].orderId].status = CONFIRMED
       /\ calls[d].result = OK => orders[calls[d].orderId].status = REJECTED

\* C29: a checkout that answers an error has persisted no order, whichever
\* of its steps failed: the cart read, the proof upload, the order write or
\* the cart delete
C29_FailedCheckoutLeavesNoOrder ==
  [][\A u \in Shoppers, f \in FileInputs, fail \in CheckoutFailures :
       checkoutResult(u, f, fail) >= BAD_REQUEST /\ checkout(u, f, fail)
         => orders' = orders]_vars

\* C30: once every createReview call has completed, calls for different
\* orders of one stall that ran together included, each stall's totalReviews
\* is the number of its review documents and its rating is their mean
\* rounded to one decimal
C30_RatingCorrectAfterAllReviews ==
  (\A c \in DOMAIN calls : calls[c].pc = "done") =>
    \A s \in DOMAIN stalls :
      LET ids == ReviewsOfStall(reviews, s) IN
        /\ stalls[s].totalReviews = Cardinality(ids)
        /\ ids = {} => stalls[s].rating = 0
        /\ RoundsTo(stalls[s].rating, SumRatings(reviews, ids), Cardinality(ids))

====
